---- MODULE Spec2Model ----
(***************************************************************************)
(* svgenotyper/genotype.py: the genotyping driver.  run() seeds the random *)
(* generators, loads a trained model from <model_dir>/<model_name>.*,      *)
(* runs predictive and discrete sampling, merges the two results, projects *)
(* them to one record per variant (get_output) and writes the records.     *)
(*                                                                         *)
(* Three specifications:                                                   *)
(*   Spec         a process that calls run() up to MaxRuns times;          *)
(*   SpecProject  lines 48-54 of run() (merge, get_output, write, return)  *)
(*                started from every bounded sampler result;               *)
(*   SpecGlobal   get_global_stats applied to every bounded stats mapping. *)
(***************************************************************************)
EXTENDS Integers, Sequences, FiniteSets, TLC

VARIABLES
    pc,                 \* next statement group of run() to execute, or "idle"/"raised"
    args,               \* the args mapping of the current invocation
    np_rng,             \* process-wide state of numpy's generator
    torch_rng,          \* process-wide state of torch's generator
    pyro_rng,           \* process-wide state of pyro's generator
    param_store,        \* pyro's process-wide parameter registry
    log,                \* warning-level log entries emitted by the process
    params,             \* run(): params (optional)
    model,              \* run(): model (optional)
    vids_list,          \* run(): vids_list
    data,               \* run(): data
    posterior,          \* run(): posterior (a stats mapping)
    discrete_posterior, \* run(): discrete_posterior
    output,             \* run(): output, the result of get_output
    ret,                \* value returned by the last completed run() (optional)
    out_files,          \* files written by io.write_variant_output, by path
    calls,              \* history: stages executed by the current invocation
    history,            \* history: [args, output] of each completed invocation, in order
    n_runs,             \* number of invocations started
    global_stats,       \* result of get_global_stats
    exc,                \* exception that ended the current invocation, "" if none
    predictive          \* history: the mapping run_predictive returned

vars == <<pc, args, np_rng, torch_rng, pyro_rng, param_store, log, params, model,
          vids_list, data, posterior, discrete_posterior, output, ret, out_files,
          calls, history, n_runs, global_stats, exc,
          predictive>>

-----------------------------------------------------------------------------
(* Bounds *)

MaxRuns == 3        \* invocations of run() in one process
MaxSeed == 1        \* random_seed ranges over 0..MaxSeed
MaxLen  == 2        \* longest vid list / most rows of a statistic array
MaxMean == 1        \* statistic values range over 0..MaxMean
MaxMu   == 2        \* prior means range over 1..MaxMu

RngMod == 3         \* generator states are 0..RngMod-1

-----------------------------------------------------------------------------
(* Optional values: Python's None and a present value *)

None == <<>>
Some(v) == <<v>>
Get(o) == o[1]

EmptyMap == [s \in {} |-> 0]

RngStates == 0 .. (RngMod - 1)
Seeds == 0 .. MaxSeed

-----------------------------------------------------------------------------
(* The files on disk, by model name.  "absent" has no artifacts at all. *)

ModelNames == {"m1", "m2", "absent"}
SVTypeNames == {"DEL", "INS"}
OutputPaths == {"out.tsv"}

Exists(name) == name \in {"m1", "m2"}

\* <base>.vars.json
VarsJson(name) ==
    [k |-> 2,
     mu_eps_pe  |-> IF name = "m1" THEN 2 ELSE 3,
     mu_eps_sr1 |-> IF name = "m1" THEN 3 ELSE 1,
     mu_eps_sr2 |-> 1,
     var_phi_pe |-> 1, var_phi_sr1 |-> 1, var_phi_sr2 |-> 1,
     read_length |-> 150, loss |-> "elbo"]

\* <base>.param_store.pyro
ParamStoreFile(name) ==
    IF name = "m1" THEN [s \in {"guide_loc_a"} |-> 1]
    ELSE [s \in {"guide_loc_b", "guide_scale_b"} |-> 2]

\* <base>.vids.list
VidsFile(name) == IF name = "m1" THEN <<"sv1", "sv2">> ELSE <<"sv3">>

\* the tensors of <base>
TensorFiles(name) == IF name = "m1" THEN <<0, 1>> ELSE <<1>>

Args == [random_seed : Seeds, model_name : ModelNames, svtype : SVTypeNames,
         output : OutputPaths]

-----------------------------------------------------------------------------
(* Library calls used by run() *)

\* pyro.clear_param_store()
clear_param_store(store) == EmptyMap

\* np.random.seed / torch.random.manual_seed / pyro.set_rng_seed
manual_seed(seed) == seed % RngMod

\* one draw from a generator
Draw(s) == (s + 1) % RngMod

\* pyro.get_param_store().load(path): entries of the file replace same-named entries
param_store_load(store, file) ==
    [s \in (DOMAIN store) \cup (DOMAIN file) |->
        IF s \in DOMAIN file THEN file[s] ELSE store[s]]

\* update with the arguments' roles exchanged: entries already present win
update_left(a, b) ==
    [s \in (DOMAIN a) \cup (DOMAIN b) |-> IF s \in DOMAIN a THEN a[s] ELSE b[s]]

\* dict.update: posterior.update(discrete_posterior)
update(a, b) ==
    [s \in (DOMAIN a) \cup (DOMAIN b) |-> IF s \in DOMAIN b THEN b[s] ELSE a[s]]

-----------------------------------------------------------------------------
(* load_model and load_param_store *)

Warning(path) == [level |-> "WARNING", msg |-> path]

\* load_model without its else branch: nothing is logged
load_model_silent(base_path, lg) ==
    IF Exists(base_path)
    THEN [ret |-> Some(VarsJson(base_path)), log |-> lg]
    ELSE [ret |-> None, log |-> lg]

load_model(base_path, lg) ==
    IF Exists(base_path)
    THEN [ret |-> Some(VarsJson(base_path)), log |-> lg]
    ELSE [ret |-> None, log |-> Append(lg, Warning(base_path))]

\* load_param_store with its two statements exchanged
load_param_store_clear_last(base_path, store) ==
    clear_param_store(param_store_load(store, ParamStoreFile(base_path)))

load_param_store(base_path, store) ==
    param_store_load(clear_param_store(store), ParamStoreFile(base_path))

-----------------------------------------------------------------------------
(* The model object and its two samplers (svgenotyper/model.py) *)

RECURSIVE SumOver(_, _)
SumOver(f, S) ==
    IF S = {} THEN 0
    ELSE LET s == CHOOSE t \in S : TRUE IN f[s] + SumOver(f, S \ {s})

\* what a sample depends on: the three generators and the learned parameters
SampleBase(np, t, p, store) ==
    np + RngMod * t + RngMod * RngMod * p
       + RngMod * RngMod * RngMod * SumOver(store, DOMAIN store)

HasPE(svtype) == svtype # "INS"

PredictiveSites(svtype) ==
    {"eps_sr1", "eps_sr2", "phi_sr1", "phi_sr2"}
        \cup (IF HasPE(svtype) THEN {"eps_pe", "phi_pe"} ELSE {})

DiscreteSites(svtype) ==
    {"z", "m_sr1", "m_sr2"} \cup (IF HasPE(svtype) THEN {"m_pe"} ELSE {})

SVGenotyperPyroModel(svtype, p) ==
    [svtype |-> svtype, k |-> p.k, mu_eps_pe |-> p.mu_eps_pe,
     mu_eps_sr1 |-> p.mu_eps_sr1, mu_eps_sr2 |-> p.mu_eps_sr2,
     read_length |-> p.read_length, loss |-> p.loss]

run_predictive(m, d, np, t, p, store) ==
    LET base == SampleBase(np, t, p, store) IN
    [s \in PredictiveSites(m.svtype) |->
        [mean |-> [i \in 1 .. Len(d) |-> base + d[i]],
         std  |-> [i \in 1 .. Len(d) |-> 0]]]

run_discrete(m, d, np, t, p, store) ==
    LET base == SampleBase(np, t, p, store) IN
    [s \in DiscreteSites(m.svtype) |->
        IF s = "z"
        THEN [mean |-> [i \in 1 .. Len(d) |-> [j \in 1 .. m.k |-> base + d[i] + j]]]
        ELSE [mean |-> [i \in 1 .. Len(d) |-> base + d[i]]]]

-----------------------------------------------------------------------------
(* get_output *)

OptionalSites == {"eps_pe", "phi_pe", "m_pe"}
RequiredSites == {"z", "m_sr1", "m_sr2", "eps_sr1", "eps_sr2", "phi_sr1", "phi_sr2"}

\* the sites in the order one loop iteration reads them (lines 68-96)
AccessOrder == <<"eps_pe", "phi_pe", "m_pe", "z", "m_sr1", "m_sr2",
                 "eps_sr1", "eps_sr2", "phi_sr1", "phi_sr2">>

\* the exception raised by reading row i of site s, "" if none
AccessError(stats, s, i) ==
    IF s \notin DOMAIN stats
    THEN (IF s \in OptionalSites THEN "" ELSE "KeyError")
    ELSE IF Len(stats[s].mean) < i THEN "IndexError" ELSE ""

\* the first exception raised by iteration i, reading the sites from the j-th on
RECURSIVE IterationError(_, _, _)
IterationError(stats, i, j) ==
    IF j > Len(AccessOrder) THEN ""
    ELSE IF AccessError(stats, AccessOrder[j], i) # ""
         THEN AccessError(stats, AccessOrder[j], i)
         ELSE IterationError(stats, i, j + 1)

\* OutputRecord with the m_pe test nested inside the eps_pe test, and with
\* eps_pe left unscaled (two separate slips, used separately below)
OutputRecord_nested(vids, stats, p, i) ==
    [vid     |-> vids[i],
     freq_z  |-> stats["z"].mean[i],
     p_m_pe  |-> IF "eps_pe" \in DOMAIN stats /\ "m_pe" \in DOMAIN stats
                 THEN stats["m_pe"].mean[i] ELSE 0,
     p_m_sr1 |-> stats["m_sr1"].mean[i],
     p_m_sr2 |-> stats["m_sr2"].mean[i],
     eps_pe  |-> IF "eps_pe" \in DOMAIN stats
                 THEN stats["eps_pe"].mean[i] * p.mu_eps_pe ELSE 0,
     eps_sr1 |-> stats["eps_sr1"].mean[i] * p.mu_eps_sr1,
     eps_sr2 |-> stats["eps_sr2"].mean[i] * p.mu_eps_sr2,
     phi_pe  |-> IF "phi_pe" \in DOMAIN stats THEN stats["phi_pe"].mean[i] ELSE 0,
     phi_sr1 |-> stats["phi_sr1"].mean[i],
     phi_sr2 |-> stats["phi_sr2"].mean[i]]

OutputRecord_unscaled(vids, stats, p, i) ==
    [vid     |-> vids[i],
     freq_z  |-> stats["z"].mean[i],
     p_m_pe  |-> IF "m_pe" \in DOMAIN stats THEN stats["m_pe"].mean[i] ELSE 0,
     p_m_sr1 |-> stats["m_sr1"].mean[i],
     p_m_sr2 |-> stats["m_sr2"].mean[i],
     eps_pe  |-> IF "eps_pe" \in DOMAIN stats THEN stats["eps_pe"].mean[i] ELSE 0,
     eps_sr1 |-> stats["eps_sr1"].mean[i] * p.mu_eps_sr1,
     eps_sr2 |-> stats["eps_sr2"].mean[i] * p.mu_eps_sr2,
     phi_pe  |-> IF "phi_pe" \in DOMAIN stats THEN stats["phi_pe"].mean[i] ELSE 0,
     phi_sr1 |-> stats["phi_sr1"].mean[i],
     phi_sr2 |-> stats["phi_sr2"].mean[i]]

\* the record appended by iteration i (lines 67-99)
OutputRecord(vids, stats, p, i) ==
    [vid     |-> vids[i],
     freq_z  |-> stats["z"].mean[i],
     p_m_pe  |-> IF "m_pe" \in DOMAIN stats THEN stats["m_pe"].mean[i] ELSE 0,
     p_m_sr1 |-> stats["m_sr1"].mean[i],
     p_m_sr2 |-> stats["m_sr2"].mean[i],
     eps_pe  |-> IF "eps_pe" \in DOMAIN stats
                 THEN stats["eps_pe"].mean[i] * p.mu_eps_pe ELSE 0,
     eps_sr1 |-> stats["eps_sr1"].mean[i] * p.mu_eps_sr1,
     eps_sr2 |-> stats["eps_sr2"].mean[i] * p.mu_eps_sr2,
     phi_pe  |-> IF "phi_pe" \in DOMAIN stats THEN stats["phi_pe"].mean[i] ELSE 0,
     phi_sr1 |-> stats["phi_sr1"].mean[i],
     phi_sr2 |-> stats["phi_sr2"].mean[i]]

\* the loop with insert(0, ...) in place of append
RECURSIVE get_output_loop_prepend(_, _, _, _, _)
get_output_loop_prepend(vids, stats, p, i, output_list) ==
    IF i > Len(vids) THEN [err |-> "", val |-> output_list]
    ELSE IF IterationError(stats, i, 1) # ""
         THEN [err |-> IterationError(stats, i, 1), val |-> <<>>]
         ELSE get_output_loop_prepend(vids, stats, p, i + 1,
                                      <<OutputRecord(vids, stats, p, i)>> \o output_list)

\* the for loop of lines 66-99, from iteration i on (i counts from 1)
RECURSIVE get_output_loop(_, _, _, _, _)
get_output_loop(vids, stats, p, i, output_list) ==
    IF i > Len(vids) THEN [err |-> "", val |-> output_list]
    ELSE IF IterationError(stats, i, 1) # ""
         THEN [err |-> IterationError(stats, i, 1), val |-> <<>>]
         ELSE get_output_loop(vids, stats, p, i + 1,
                              Append(output_list, OutputRecord(vids, stats, p, i)))

get_output(vids, stats, p) == get_output_loop(vids, stats, p, 1, <<>>)

-----------------------------------------------------------------------------
(* get_global_stats *)

global_sites == <<"pi_sr1", "pi_sr2", "pi_pe", "pi_rd">>

global_site_scales == [s \in {"pi_sr1", "pi_sr2", "pi_pe"} |-> 1]

\* the for loop of lines 115-118, from the j-th listed site on
RECURSIVE get_global_stats_loop(_, _, _)
get_global_stats_loop(stats, j, gs) ==
    IF j > Len(global_sites) THEN [err |-> "", val |-> gs]
    ELSE LET site == global_sites[j] IN
         IF site \notin DOMAIN stats THEN get_global_stats_loop(stats, j + 1, gs)
         ELSE IF site \notin DOMAIN global_site_scales
              THEN [err |-> "KeyError", val |-> EmptyMap]
              ELSE get_global_stats_loop(stats, j + 1,
                     update(gs, [key \in {site \o "_mean", site \o "_std"} |->
                                    IF key = site \o "_mean"
                                    THEN stats[site].mean * global_site_scales[site]
                                    ELSE stats[site].std * global_site_scales[site]]))

get_global_stats(stats) == get_global_stats_loop(stats, 1, EmptyMap)

-----------------------------------------------------------------------------
(* run(): one action per statement group, in program order *)

\* run() with the two sampler calls exchanged
StageAfter_swapped(stage) ==
    CASE stage = "invoke"               -> "load_model"
      [] stage = "load_model"           -> "check_params"
      [] stage = "check_params"         -> "construct_model"
      [] stage = "construct_model"      -> "load_param_store"
      [] stage = "load_param_store"     -> "load_inputs"
      [] stage = "load_inputs"          -> "run_discrete"
      [] stage = "run_discrete"         -> "run_predictive"
      [] stage = "run_predictive"       -> "merge"
      [] stage = "merge"                -> "get_output"
      [] stage = "get_output"           -> "write_variant_output"
      [] stage = "write_variant_output" -> "return"
      [] stage = "return"               -> "idle"

\* the statement group that follows each one in run()
StageAfter(stage) ==
    CASE stage = "invoke"               -> "load_model"
      [] stage = "load_model"           -> "check_params"
      [] stage = "check_params"         -> "construct_model"
      [] stage = "construct_model"      -> "load_param_store"
      [] stage = "load_param_store"     -> "load_inputs"
      [] stage = "load_inputs"          -> "run_predictive"
      [] stage = "run_predictive"       -> "run_discrete"
      [] stage = "run_discrete"         -> "merge"
      [] stage = "merge"                -> "get_output"
      [] stage = "get_output"           -> "write_variant_output"
      [] stage = "write_variant_output" -> "return"
      [] stage = "return"               -> "idle"

\* run() without line 22: torch's generator keeps whatever state it had
Invoke_noTorchSeed(a) ==
    /\ pc \in {"idle", "raised"}
    /\ n_runs < MaxRuns
    /\ n_runs' = n_runs + 1
    /\ args' = a
    /\ param_store' = clear_param_store(param_store)
    /\ np_rng' = manual_seed(a.random_seed)
    /\ torch_rng' = torch_rng
    /\ pyro_rng' = manual_seed(a.random_seed)
    /\ params' = None /\ model' = None
    /\ vids_list' = <<>> /\ data' = <<>>
    /\ posterior' = EmptyMap /\ discrete_posterior' = EmptyMap
    /\ output' = <<>>
    /\ exc' = ""
    /\ calls' = <<"seed">>
    /\ pc' = StageAfter("invoke")
    /\ predictive' = EmptyMap
    /\ UNCHANGED <<log, ret, out_files, history, global_stats>>

\* lines 13-24: a caller invokes run(a); registry cleared, generators seeded
Invoke(a) ==
    /\ pc \in {"idle", "raised"}
    /\ n_runs < MaxRuns
    /\ n_runs' = n_runs + 1
    /\ args' = a
    /\ param_store' = clear_param_store(param_store)
    /\ np_rng' = manual_seed(a.random_seed)
    /\ torch_rng' = manual_seed(a.random_seed)
    /\ pyro_rng' = manual_seed(a.random_seed)
    /\ params' = None /\ model' = None
    /\ vids_list' = <<>> /\ data' = <<>>
    /\ posterior' = EmptyMap /\ discrete_posterior' = EmptyMap
    /\ output' = <<>>
    /\ exc' = ""
    /\ calls' = <<"seed">>
    /\ pc' = StageAfter("invoke")
    /\ predictive' = EmptyMap
    /\ UNCHANGED <<log, ret, out_files, history, global_stats>>

\* lines 26-27
LoadModel ==
    /\ pc = "load_model"
    /\ params' = load_model(args.model_name, log).ret
    /\ log' = load_model(args.model_name, log).log
    /\ calls' = Append(calls, "load_model")
    /\ pc' = StageAfter("load_model")
    /\ UNCHANGED <<args, np_rng, torch_rng, pyro_rng, param_store, model, vids_list,
                   data, posterior, discrete_posterior, output, ret, out_files,
                   history, n_runs, global_stats, exc, predictive>>

\* run() without lines 28-29: a None result is not checked
CheckParams_noRaise ==
    /\ pc = "check_params"
    /\ pc' = StageAfter("check_params")
    /\ UNCHANGED <<args, np_rng, torch_rng, pyro_rng, param_store, log, params, model,
                   vids_list, data, posterior, discrete_posterior, output, ret,
                   out_files, calls, history, n_runs, global_stats, exc, predictive>>

\* lines 28-29
CheckParams ==
    /\ pc = "check_params"
    /\ IF params = None
       THEN pc' = "raised" /\ exc' = "RuntimeError"
       ELSE pc' = StageAfter("check_params") /\ exc' = exc
    /\ UNCHANGED <<args, np_rng, torch_rng, pyro_rng, param_store, log, params, model,
                   vids_list, data, posterior, discrete_posterior, output, ret,
                   out_files, calls, history, n_runs, global_stats, predictive>>

\* lines 31-34; subscripting None is a TypeError
ConstructModel ==
    /\ pc = "construct_model"
    /\ calls' = Append(calls, "construct_model")
    /\ IF params = None
       THEN pc' = "raised" /\ exc' = "TypeError" /\ model' = model
       ELSE /\ model' = Some(SVGenotyperPyroModel(args.svtype, Get(params)))
            /\ pc' = StageAfter("construct_model")
            /\ exc' = exc
    /\ UNCHANGED <<args, np_rng, torch_rng, pyro_rng, param_store, log, params,
                   vids_list, data, posterior, discrete_posterior, output, ret,
                   out_files, history, n_runs, global_stats, predictive>>

\* line 35
LoadParamStore ==
    /\ pc = "load_param_store"
    /\ param_store' = load_param_store(args.model_name, param_store)
    /\ calls' = Append(calls, "load_param_store")
    /\ pc' = StageAfter("load_param_store")
    /\ UNCHANGED <<args, np_rng, torch_rng, pyro_rng, log, params, model, vids_list,
                   data, posterior, discrete_posterior, output, ret, out_files,
                   history, n_runs, global_stats, exc, predictive>>

\* lines 36-37: io.load_list, io.load_tensors
LoadInputs ==
    /\ pc = "load_inputs"
    /\ vids_list' = VidsFile(args.model_name)
    /\ data' = TensorFiles(args.model_name)
    /\ calls' = Append(calls, "load_inputs")
    /\ pc' = StageAfter("load_inputs")
    /\ UNCHANGED <<args, np_rng, torch_rng, pyro_rng, param_store, log, params, model,
                   posterior, discrete_posterior, output, ret, out_files, history,
                   n_runs, global_stats, exc, predictive>>

\* lines 39-40
RunPredictive ==
    /\ pc = "run_predictive"
    /\ posterior' = run_predictive(Get(model), data, np_rng, torch_rng, pyro_rng,
                                   param_store)
    /\ torch_rng' = Draw(torch_rng)
    /\ pyro_rng' = Draw(pyro_rng)
    /\ calls' = Append(calls, "run_predictive")
    /\ pc' = StageAfter("run_predictive")
    /\ predictive' = posterior'
    /\ UNCHANGED <<args, np_rng, param_store, log, params, model, vids_list, data,
                   discrete_posterior, output, ret, out_files, history, n_runs,
                   global_stats, exc>>

\* lines 43-45
RunDiscrete ==
    /\ pc = "run_discrete"
    /\ discrete_posterior' = run_discrete(Get(model), data, np_rng, torch_rng,
                                          pyro_rng, param_store)
    /\ np_rng' = Draw(np_rng)
    /\ torch_rng' = Draw(torch_rng)
    /\ calls' = Append(calls, "run_discrete")
    /\ pc' = StageAfter("run_discrete")
    /\ UNCHANGED <<args, pyro_rng, param_store, log, params, model, vids_list, data,
                   posterior, output, ret, out_files, history, n_runs, global_stats,
                   exc, predictive>>

\* line 48
Merge ==
    /\ pc = "merge"
    /\ posterior' = update(posterior, discrete_posterior)
    /\ calls' = Append(calls, "merge")
    /\ pc' = StageAfter("merge")
    /\ UNCHANGED <<args, np_rng, torch_rng, pyro_rng, param_store, log, params, model,
                   vids_list, data, discrete_posterior, output, ret, out_files,
                   history, n_runs, global_stats, exc, predictive>>

\* line 50
GetOutput ==
    /\ pc = "get_output"
    /\ calls' = Append(calls, "get_output")
    /\ LET r == get_output(vids_list, posterior, Get(params)) IN
       IF r.err # ""
       THEN pc' = "raised" /\ exc' = r.err /\ output' = output
       ELSE pc' = StageAfter("get_output") /\ exc' = exc /\ output' = r.val
    /\ UNCHANGED <<args, np_rng, torch_rng, pyro_rng, param_store, log, params, model,
                   vids_list, data, posterior, discrete_posterior, ret, out_files,
                   history, n_runs, global_stats, predictive>>

\* line 53
WriteVariantOutput ==
    /\ pc = "write_variant_output"
    /\ out_files' = [out_files EXCEPT ![args.output] = Some(output)]
    /\ calls' = Append(calls, "write_variant_output")
    /\ pc' = StageAfter("write_variant_output")
    /\ UNCHANGED <<args, np_rng, torch_rng, pyro_rng, param_store, log, params, model,
                   vids_list, data, posterior, discrete_posterior, output, ret,
                   history, n_runs, global_stats, exc, predictive>>

\* line 54
Return ==
    /\ pc = "return"
    /\ ret' = Some(output)
    /\ history' = Append(history, [args |-> args, output |-> output])
    /\ pc' = StageAfter("return")
    /\ UNCHANGED <<args, np_rng, torch_rng, pyro_rng, param_store, log, params, model,
                   vids_list, data, posterior, discrete_posterior, output, out_files,
                   calls, n_runs, global_stats, exc, predictive>>

\* a fresh process: nothing seeded, nothing registered, nothing written
Init ==
    /\ pc = "idle"
    /\ args = [random_seed |-> 0, model_name |-> "absent", svtype |-> "DEL",
               output |-> "out.tsv"]
    /\ np_rng \in RngStates /\ torch_rng \in RngStates /\ pyro_rng \in RngStates
    /\ param_store = EmptyMap
    /\ log = <<>>
    /\ params = None /\ model = None
    /\ vids_list = <<>> /\ data = <<>>
    /\ posterior = EmptyMap /\ discrete_posterior = EmptyMap
    /\ output = <<>>
    /\ ret = None
    /\ out_files = [f \in OutputPaths |-> None]
    /\ calls = <<>>
    /\ history = <<>>
    /\ n_runs = 0
    /\ global_stats = [err |-> "", val |-> EmptyMap]
    /\ exc = ""
    /\ predictive = EmptyMap

Next ==
    \/ \E a \in Args : Invoke(a)
    \/ LoadModel
    \/ CheckParams
    \/ ConstructModel
    \/ LoadParamStore
    \/ LoadInputs
    \/ RunPredictive
    \/ RunDiscrete
    \/ Merge
    \/ GetOutput
    \/ WriteVariantOutput
    \/ Return

Spec == Init /\ [][Next]_vars

-----------------------------------------------------------------------------
(* Lines 48-54 of run(), started from every bounded pair of sampler results *)

VidNames == {"sv1", "sv2"}

SeqsUpTo(S, n) == UNION {[1 .. m -> S] : m \in 0 .. n}

SiteNo(s) == CHOOSE j \in 1 .. Len(AccessOrder) : AccessOrder[j] = s

\* a site entry as run_predictive shapes it: mean and std, one row per variant
PredictiveEntry(s, r) ==
    IF s = "z"
    THEN [mean |-> [i \in DOMAIN r |-> <<r[i], MaxMean - r[i]>>],
          std  |-> [i \in DOMAIN r |-> <<0, 0>>]]
    ELSE [mean |-> [i \in DOMAIN r |-> r[i] + SiteNo(s)],
          std  |-> [i \in DOMAIN r |-> 0]]

\* a site entry as run_discrete shapes it: mean only
DiscreteEntry(s, r) ==
    IF s = "z"
    THEN [mean |-> [i \in DOMAIN r |-> <<MaxMean - r[i], r[i]>>]]
    ELSE [mean |-> [i \in DOMAIN r |-> r[i] + SiteNo(s) + 20]]

\* the site sets run_predictive may return: all required sites or all but one,
\* and any of the optional ones
PredictiveDomains ==
    {(RequiredSites \ miss) \cup opt :
        miss \in {{}, {"z"}, {"phi_sr2"}}, opt \in SUBSET OptionalSites}

DiscreteDomains == SUBSET {"z", "m_pe", "eps_pe"}

ProjectCalls == <<"seed", "load_model", "construct_model", "load_param_store",
                  "load_inputs", "run_predictive", "run_discrete">>

InitProject ==
    /\ pc = "merge"
    /\ args = [random_seed |-> 0, model_name |-> "m1", svtype |-> "DEL",
               output |-> "out.tsv"]
    /\ np_rng = 0 /\ torch_rng = 0 /\ pyro_rng = 0
    /\ param_store = ParamStoreFile("m1")
    /\ log = <<>>
    /\ \E mu \in 1 .. MaxMu :
          params = Some([VarsJson("m1") EXCEPT !.mu_eps_pe = mu])
    /\ model = Some(SVGenotyperPyroModel("DEL", Get(params)))
    /\ vids_list \in SeqsUpTo(VidNames, MaxLen)
    /\ data = <<>>
    /\ \E r \in SeqsUpTo(0 .. MaxMean, MaxLen) :
          /\ \E D \in PredictiveDomains :
                posterior = [s \in D |-> PredictiveEntry(s, r)]
          /\ \E D \in DiscreteDomains :
                discrete_posterior = [s \in D |-> DiscreteEntry(s, r)]
    /\ output = <<>>
    /\ ret = None
    /\ out_files = [f \in OutputPaths |-> None]
    /\ calls = ProjectCalls
    /\ history = <<>>
    /\ n_runs = 1
    /\ global_stats = [err |-> "", val |-> EmptyMap]
    /\ exc = ""
    /\ predictive = posterior

NextProject ==
    \/ Merge
    \/ GetOutput
    \/ WriteVariantOutput
    \/ Return

SpecProject == InitProject /\ [][NextProject]_vars

-----------------------------------------------------------------------------
(* get_global_stats applied to every bounded stats mapping *)

GlobalInputSites == {"pi_sr1", "pi_sr2", "pi_pe", "pi_rd"}

GlobalInputs ==
    UNION {[D -> [mean : 0 .. MaxMean, std : 0 .. MaxMean]] :
              D \in SUBSET GlobalInputSites}

\* the call commented out at line 51
GetGlobalStats ==
    /\ pc = "get_global_stats"
    /\ global_stats' = get_global_stats(posterior)
    /\ pc' = "global_done"
    /\ UNCHANGED <<args, np_rng, torch_rng, pyro_rng, param_store, log, params, model,
                   vids_list, data, posterior, discrete_posterior, output, ret,
                   out_files, calls, history, n_runs, exc, predictive>>

InitGlobal ==
    /\ pc = "get_global_stats"
    /\ args = [random_seed |-> 0, model_name |-> "m1", svtype |-> "DEL",
               output |-> "out.tsv"]
    /\ np_rng = 0 /\ torch_rng = 0 /\ pyro_rng = 0
    /\ param_store = EmptyMap
    /\ log = <<>>
    /\ params = None /\ model = None
    /\ vids_list = <<>> /\ data = <<>>
    /\ posterior \in GlobalInputs
    /\ discrete_posterior = EmptyMap
    /\ output = <<>>
    /\ ret = None
    /\ out_files = [f \in OutputPaths |-> None]
    /\ calls = <<>>
    /\ history = <<>>
    /\ n_runs = 0
    /\ global_stats = [err |-> "", val |-> EmptyMap]
    /\ exc = ""
    /\ predictive = EmptyMap

NextGlobal == GetGlobalStats

SpecGlobal == InitGlobal /\ [][NextGlobal]_vars

-----------------------------------------------------------------------------
(* Properties *)

\* get_output has just returned: run() is at line 53 or 54
Projected == pc \in {"write_variant_output", "return"}

\* every site get_output reads is there with a row for every vid
GetOutputPre ==
    /\ RequiredSites \subseteq DOMAIN posterior
    /\ \A s \in DOMAIN posterior : Len(posterior[s].mean) >= Len(vids_list)

StageOrder == <<"seed", "load_model", "construct_model", "load_param_store",
                "load_inputs", "run_predictive", "run_discrete", "merge",
                "get_output", "write_variant_output">>

\* C1: the list get_output returns has one record per vid, in the order of
\* vids_list: record i carries vids_list[i], duplicates included.
C1_LengthAndOrder ==
    Projected =>
        /\ Len(output) = Len(vids_list)
        /\ \A i \in 1 .. Len(vids_list) : output[i].vid = vids_list[i]

C1_Witness ==
    /\ Projected
    /\ Len(vids_list) = 2
    /\ vids_list[1] = vids_list[2]
    /\ Len(output) = 2

\* C2: without an eps_pe site every record has eps_pe = 0; with one, record i
\* has eps_pe = stats['eps_pe']['mean'][i] * params['mu_eps_pe'].
C2_EpsPe ==
    Projected =>
        \A i \in 1 .. Len(output) :
            output[i].eps_pe =
                IF "eps_pe" \in DOMAIN posterior
                THEN posterior["eps_pe"].mean[i] * Get(params).mu_eps_pe
                ELSE 0

C2_Witness ==
    /\ Projected
    /\ "eps_pe" \in DOMAIN posterior
    /\ Len(output) >= 2
    /\ Get(params).mu_eps_pe >= 2
    /\ output[1].eps_pe # output[2].eps_pe

\* C3: whichever of eps_pe, phi_pe and m_pe are present, get_output does not
\* fail when the required sites are there; the field of an absent optional
\* site is 0 and the field of a present one comes from that site's mean row,
\* independently of the other two.
C3_OptionalDefaults ==
    (pc \in {"write_variant_output", "return", "raised"} /\ GetOutputPre) =>
        /\ exc = ""
        /\ Len(output) = Len(vids_list)
        /\ \A i \in 1 .. Len(output) :
              /\ output[i].eps_pe =
                    IF "eps_pe" \in DOMAIN posterior
                    THEN posterior["eps_pe"].mean[i] * Get(params).mu_eps_pe
                    ELSE 0
              /\ output[i].phi_pe =
                    IF "phi_pe" \in DOMAIN posterior
                    THEN posterior["phi_pe"].mean[i] ELSE 0
              /\ output[i].p_m_pe =
                    IF "m_pe" \in DOMAIN posterior
                    THEN posterior["m_pe"].mean[i] ELSE 0

C3_Witness ==
    /\ Projected
    /\ Len(output) >= 1
    /\ "m_pe" \in DOMAIN posterior
    /\ "eps_pe" \notin DOMAIN posterior
    /\ "phi_pe" \notin DOMAIN posterior
    /\ output[1].p_m_pe # 0
    /\ output[1].eps_pe = 0

\* C4: when <base>.vars.json is missing, run() ends in a RuntimeError right
\* after load_model: no model, no vids, no tensors, no sampling, and the
\* output file still holds what the last completed invocation wrote (nothing,
\* if there was none).
C4_MissingModelAborts ==
    (n_runs > 0 /\ ~Exists(args.model_name)
        /\ pc \notin {"load_model", "check_params"}) =>
        /\ pc = "raised"
        /\ exc = "RuntimeError"
        /\ calls = <<"seed", "load_model">>
        /\ model = None
        /\ vids_list = <<>> /\ data = <<>>
        /\ posterior = EmptyMap /\ discrete_posterior = EmptyMap
        /\ output = <<>>
        /\ out_files[args.output] =
              IF history = <<>> THEN None
              ELSE Some(history[Len(history)].output)

C4_Witness ==
    /\ pc = "raised"
    /\ ~Exists(args.model_name)
    /\ Len(history) >= 1
    /\ out_files[args.output] # None

\* C5: the load_model step always hands control back to run(): for a missing
\* file with None and exactly one more warning in the log, for an existing
\* file with the parsed mapping and an unchanged log.
C5_LoadModel ==
    [][pc = "load_model" =>
         /\ pc' = "check_params"
         /\ exc' = ""
         /\ IF Exists(args.model_name)
            THEN /\ params' = Some(VarsJson(args.model_name))
                 /\ log' = log
            ELSE /\ params' = None
                 /\ Len(log') = Len(log) + 1
                 /\ SubSeq(log', 1, Len(log)) = log
                 /\ log'[Len(log')].level = "WARNING"]_vars

C5_Witness ==
    /\ pc = "check_params"
    /\ params = None
    /\ Len(log) >= 2
    /\ exc = ""

\* C6: two completed invocations of one process with the same args returned
\* the same records, whatever ran before each of them.
C6_Deterministic ==
    \A i, j \in 1 .. Len(history) :
        history[i].args = history[j].args => history[i].output = history[j].output

C6_Witness ==
    /\ Len(history) = 3
    /\ history[1].args = history[3].args
    /\ history[2].args.random_seed # history[1].args.random_seed
    /\ history[2].args.model_name # history[1].args.model_name

\* C7: every invocation starts with an empty registry, and after
\* load_param_store the registry is exactly the invocation's param_store file.
C7_RegistryReloaded ==
    /\ pc = "load_model" => param_store = EmptyMap
    /\ pc = "load_inputs" => param_store = ParamStoreFile(args.model_name)

C7_Witness ==
    /\ pc = "load_inputs"
    /\ Len(history) >= 1
    /\ history[Len(history)].args.model_name # args.model_name
    /\ DOMAIN param_store = DOMAIN ParamStoreFile(args.model_name)

\* C8: the stages an invocation has executed are always a prefix of the
\* stage order, each once; write_variant_output gets the full list get_output
\* produced, and a completed invocation ran every stage and returned that list.
C8_StageOrder ==
    /\ Len(calls) <= Len(StageOrder)
    /\ \A i \in 1 .. Len(calls) : calls[i] = StageOrder[i]
    /\ pc = "write_variant_output" =>
          /\ output = get_output(vids_list, posterior, Get(params)).val
          /\ Len(output) = Len(vids_list)
    /\ (pc = "idle" /\ n_runs > 0) =>
          /\ calls = StageOrder
          /\ ret = Some(output)
          /\ out_files[args.output] = Some(output)

C8_Witness ==
    /\ pc = "idle"
    /\ n_runs > 0
    /\ calls = StageOrder
    /\ Len(output) = 2
    /\ ret = Some(output)

\* C9: the mapping passed to get_output has the sites of both sampler results;
\* a site of run_discrete is that entry whole, any other site is
\* run_predictive's entry unchanged.
C9_RightBiasedMerge ==
    pc = "get_output" =>
        /\ DOMAIN posterior = (DOMAIN predictive) \cup (DOMAIN discrete_posterior)
        /\ \A s \in DOMAIN posterior :
              posterior[s] = IF s \in DOMAIN discrete_posterior
                             THEN discrete_posterior[s]
                             ELSE predictive[s]

C9_Witness ==
    /\ pc = "get_output"
    /\ \E s \in (DOMAIN predictive) \cap (DOMAIN discrete_posterior) :
          /\ predictive[s] # discrete_posterior[s]
          /\ DOMAIN posterior[s] = {"mean"}
    /\ (DOMAIN predictive) \ (DOMAIN discrete_posterior) # {}
    /\ (DOMAIN discrete_posterior) \ (DOMAIN predictive) # {}

\* C10: get_global_stats does not fail, and for each of pi_sr1, pi_sr2, pi_pe
\* and pi_rd the result has '<site>_mean' and '<site>_std' (the site's mean and
\* std times its scale) exactly when the site is in stats.
C10_EveryListedSite ==
    pc = "global_done" =>
        /\ global_stats.err = ""
        /\ \A j \in 1 .. Len(global_sites) :
              LET site == global_sites[j]
                  scale == IF site \in DOMAIN global_site_scales
                           THEN global_site_scales[site] ELSE 1
              IN  IF site \in DOMAIN posterior
                  THEN /\ (site \o "_mean") \in DOMAIN global_stats.val
                       /\ (site \o "_std") \in DOMAIN global_stats.val
                       /\ global_stats.val[site \o "_mean"] = posterior[site].mean * scale
                       /\ global_stats.val[site \o "_std"] = posterior[site].std * scale
                  ELSE /\ (site \o "_mean") \notin DOMAIN global_stats.val
                       /\ (site \o "_std") \notin DOMAIN global_stats.val

====
